---- MODULE Spec2Model ----
(***************************************************************************)
(* Model of summarize-enron.py: the per-person summary (get_summaries),    *)
(* the top-sender slice, the two quarter-bucketed tables                   *)
(* (get_top_senders_graph, get_top_senders_received) and the run of main   *)
(* with its exits and output files.                                        *)
(*                                                                         *)
(* A str is a sequence of one-character strings; an address is a str       *)
(* without "|"; a recipient field is a str whose "|" separate addresses.   *)
(* A timestamp is a day number (days since 1970-01-01): the quarter bins   *)
(* have their edges at midnight, so the time of day never decides a bin.   *)
(***************************************************************************)
EXTENDS Integers, Sequences, FiniteSets, TLC

VARIABLES argv, input, pc, df, summary, top_senders, ts_table, tr_table,
          files, exit_status, stdout

vars == <<argv, input, pc, df, summary, top_senders, ts_table, tr_table,
          files, exit_status, stdout>>

(***************************************************************************)
(* Program constant and bounds of the model.                               *)
(***************************************************************************)
TOP_SENDERS == 5

\* rows of an event table handed to get_summaries
MaxEvents == 3
\* rows of an event table handed to the two bucketed aggregations
MaxSeriesEvents == 2
\* rows of the csv file read by main
MaxCsvRows == 2

(***************************************************************************)
(* Strings.                                                                *)
(***************************************************************************)
PIPE == "|"

RECURSIVE SplitFrom(_, _, _, _)
SplitFrom(s, i, cur, acc) ==
    IF i > Len(s) THEN Append(acc, cur)
    ELSE IF s[i] = PIPE THEN SplitFrom(s, i + 1, <<>>, Append(acc, cur))
    ELSE SplitFrom(s, i + 1, Append(cur, s[i]), acc)

\* str.split("|"): one part more than there are pipes, empty parts kept
Split(s) == SplitFrom(s, 1, <<>>, <<>>)

Range(f) == {f[i] : i \in DOMAIN f}

RECURSIVE Flatten(_)
\* itertools.chain(*lists)
Flatten(lists) ==
    IF lists = <<>> THEN <<>> ELSE Head(lists) \o Flatten(Tail(lists))

RECURSIVE CountIn(_, _)
\* collections.Counter(seq)[x]
CountIn(seq, x) ==
    IF seq = <<>> THEN 0
    ELSE (IF Head(seq) = x THEN 1 ELSE 0) + CountIn(Tail(seq), x)

RECURSIVE SumOver(_, _)
SumOver(seq, field) ==
    IF seq = <<>> THEN 0 ELSE Head(seq)[field] + SumOver(Tail(seq), field)

Min(a, b) == IF a <= b THEN a ELSE b

(***************************************************************************)
(* get_summaries.  A row of df is [time, sender, recipient]; the summary   *)
(* is a sequence of rows [person, sent, received].                         *)
(***************************************************************************)
emails_sent(d) == [i \in 1..Len(d) |-> d[i].sender]

senders(d) == Range(emails_sent(d))

\* [str(i).split("|") for i in df['recipient']]
split_recipients(d) == [i \in 1..Len(d) |-> Split(d[i].recipient)]

emails_received(d) == Flatten(split_recipients(d))

recipients(d) == Range(emails_received(d))

sender_ctr(d, person) == CountIn(emails_sent(d), person)

\* counts the events naming the person instead of the occurrences
recipient_ctr_per_event(d, person) ==
    Cardinality({i \in 1..Len(d) : person \in Range(split_recipients(d)[i])})

recipient_ctr(d, person) == CountIn(emails_received(d), person)

\* leaves the recipients out
people_senders_only(d) == senders(d)

people(d) == senders(d) \cup recipients(d)

\* the rows of res, one per element of people
SummaryRows(d) ==
    {[person |-> p, sent |-> sender_ctr(d, p), received |-> recipient_ctr(d, p)] :
        p \in people(d)}

RECURSIVE SortValuesAscending(_)
SortValuesAscending(rows) ==
    IF rows = {} THEN {<<>>}
    ELSE UNION {{<<r>> \o t : t \in SortValuesAscending(rows \ {r})} :
                r \in {x \in rows : \A y \in rows : x.sent <= y.sent}}

RECURSIVE SortValuesDescending(_)
\* sort_values(by=['sent'], ascending=False) of rows listed in the iteration
\* order of a set, with an unstable sort: every order of the rows in which
\* sent never increases is a possible result
SortValuesDescending(rows) ==
    IF rows = {} THEN {<<>>}
    ELSE UNION {{<<r>> \o t : t \in SortValuesDescending(rows \ {r})} :
                r \in {x \in rows : \A y \in rows : x.sent >= y.sent}}

\* the possible results of get_summaries(df)
get_summaries(d) == SortValuesDescending(SummaryRows(d))

\* list(summary['person'][0:TOP_SENDERS]) in main: a positional slice
TopSenders(s) == [i \in 1..Min(TOP_SENDERS, Len(s)) |-> s[i].person]

(***************************************************************************)
(* The calendar of the DatetimeIndex and the bins of                       *)
(* pd.Grouper(freq='BQS-JAN', closed='left'): business quarter starts, the *)
(* first weekday (Monday to Friday) of January, April, July and October.   *)
(***************************************************************************)
\* day number of the civil date y-m-d
DaysFromCivil(y, m, d) ==
    LET yy  == IF m <= 2 THEN y - 1 ELSE y
        era == yy \div 400
        yoe == yy - era * 400
        mp  == IF m > 2 THEN m - 3 ELSE m + 9
        doy == (153 * mp + 2) \div 5 + d - 1
        doe == yoe * 365 + yoe \div 4 - yoe \div 100 + doy
    IN  era * 146097 + doe - 719468

\* the civil date of a day number
CivilFromDays(n) ==
    LET z   == n + 719468
        era == z \div 146097
        doe == z - era * 146097
        yoe == (doe - doe \div 1460 + doe \div 36524 - doe \div 146096) \div 365
        doy == doe - (365 * yoe + yoe \div 4 - yoe \div 100)
        mp  == (5 * doy + 2) \div 153
        d   == doy - (153 * mp + 2) \div 5 + 1
        m   == IF mp < 10 THEN mp + 3 ELSE mp - 9
    IN  [y |-> yoe + era * 400 + (IF m <= 2 THEN 1 ELSE 0), m |-> m, d |-> d]

\* 0 = Monday ... 6 = Sunday; 1970-01-01 was a Thursday
Weekday(n) == (n + 3) % 7

\* the first month of the quarter of month m, quarters starting in January
QuarterMonth(m) == m - ((m - 1) % 3)

\* the first weekday of the month: the 1st, or the Monday after it
FirstBusinessDay(y, m) ==
    LET first == DaysFromCivil(y, m, 1)
    IN  IF Weekday(first) = 5 THEN first + 2
        ELSE IF Weekday(first) = 6 THEN first + 1
        ELSE first

\* the anchor day of the quarter that starts in month m of year y ('BQS-JAN')
QuarterAnchor(y, m) == FirstBusinessDay(y, m)

\* freq.rollback(day): the latest anchor that is not after day
Rollback(n) ==
    LET c  == CivilFromDays(n)
        qm == QuarterMonth(c.m)
        a  == QuarterAnchor(c.y, qm)
    IN  IF n >= a THEN a
        ELSE IF qm = 1 THEN QuarterAnchor(c.y - 1, 10)
        ELSE QuarterAnchor(c.y, qm - 3)

\* day + freq: the earliest anchor after day
NextAnchor(n) ==
    LET c  == CivilFromDays(n)
        qm == QuarterMonth(c.m)
        a  == QuarterAnchor(c.y, qm)
    IN  IF n < a THEN a
        ELSE IF qm = 10 THEN QuarterAnchor(c.y + 1, 1)
        ELSE QuarterAnchor(c.y, qm + 3)

SetMin(S) == CHOOSE x \in S : \A y \in S : x <= y
SetMax(S) == CHOOSE x \in S : \A y \in S : x >= y

\* the number of the quarter of a day, counted from year 0
QuarterIndex(n) ==
    LET cd == CivilFromDays(n) IN cd.y * 4 + (cd.m - 1) \div 3

AnchorOfQuarter(q) == QuarterAnchor(q \div 4, 3 * (q % 4) + 1)

\* date_range(start, end, freq) between two anchors: the anchor of every
\* quarter from that of start to that of end
DateRange(start, end) ==
    [i \in 1..(QuarterIndex(end) - QuarterIndex(start) + 1) |->
        AnchorOfQuarter(QuarterIndex(start) + i - 1)]

\* the bin edges of a non-empty set of timestamps: from the rollback of the
\* earliest to the anchor after the latest
TimeBins(times) == DateRange(Rollback(SetMin(times)), NextAnchor(SetMax(times)))

\* closed='left', label='left': the bin [edge_i, edge_i+1) holding t is named
\* edge_i, the last edge that is not after t
BinLabel(t, edges) == SetMax({e \in Range(edges) : e <= t})

Times(rows) == {rows[i].time : i \in DOMAIN rows}

\* the bin label of every row of a non-empty frame
Labels(rows) ==
    LET edges == TimeBins(Times(rows))
    IN  [i \in DOMAIN rows |-> BinLabel(rows[i].time, edges)]

(***************************************************************************)
(* Frames and the two bucketed tables (emails_by_quarter).                 *)
(***************************************************************************)
RECURSIVE SelectRows(_, _)
\* df[mask]: the rows whose mask is TRUE, in order, as a new frame
SelectRows(rows, mask) ==
    IF rows = <<>> THEN <<>>
    ELSE (IF Head(mask) THEN <<Head(rows)>> ELSE <<>>)
         \o SelectRows(Tail(rows), Tail(mask))

NoTable == [state |-> "unset", index |-> {}, columns |-> {}, cell |-> <<>>]

Raised == [state |-> "raised", index |-> {}, columns |-> {}, cell |-> <<>>]

\* the rows of a frame in bin bk (labels: the bin of every row) whose
\* column key holds k
GroupOf(rows, labels, key, bk, k) ==
    {i \in DOMAIN rows : labels[i] = bk /\ rows[i][key] = k}

\* .sender.count(): the rows of the group
CountSender(rows, group) == Cardinality(group)

\* counts the rows of the group, not the distinct senders
NuniqueAsCount(rows, group) == Cardinality(group)

\* .sender.nunique(): the distinct senders of the group
NuniqueSender(rows, group) == Cardinality({rows[i].sender : i \in group})

\* groupby([Grouper, key]).sender.<agg>().unstack(fill_value=0), then .plot():
\* the groups are the observed (bin, key) pairs only, unstack makes a row per
\* observed bin and a column per observed key and fills the other cells with
\* 0; plotting a frame without rows raises
SentByQuarter(rows) ==
    IF rows = <<>> THEN Raised
    ELSE LET labels  == Labels(rows)
             index   == Range(labels)
             columns == {rows[i].sender : i \in DOMAIN rows}
         IN  [state |-> "table", index |-> index, columns |-> columns,
              cell |-> [g \in index \X columns |->
                          CountSender(rows, GroupOf(rows, labels, "sender", g[1], g[2]))]]

UniqueByQuarter(rows) ==
    IF rows = <<>> THEN Raised
    ELSE LET labels  == Labels(rows)
             index   == Range(labels)
             columns == {rows[i].recipient : i \in DOMAIN rows}
         IN  [state |-> "table", index |-> index, columns |-> columns,
              cell |-> [g \in index \X columns |->
                          NuniqueSender(rows, GroupOf(rows, labels, "recipient", g[1], g[2]))]]

\* df[df['sender'].isin(top_senders)]
SentBy(d, top) == SelectRows(d, [i \in DOMAIN d |-> d[i].sender \in Range(top)])

\* get_top_senders_graph(df, top_senders): emails_by_quarter
get_top_senders_graph(d, top) == SentByQuarter(SentBy(d, top))

\* sender in p, p a list of strings: sender is one of its elements
IsReceiver(sender, p) == sender \in Range(p)

\* tmp = df[is_receiver].copy(); tmp['recipient'] = sender
\* in place on df instead of on the copy
RelabelInPlace(d, is_receiver, sender) ==
    LET relabelled == [i \in DOMAIN d |->
                          IF is_receiver[i]
                          THEN [d[i] EXCEPT !.recipient = sender] ELSE d[i]]
    IN  [df |-> relabelled, tmp |-> SelectRows(relabelled, is_receiver)]

\* tmp = df[is_receiver].copy(); tmp['recipient'] = sender
\* gives the frame df is afterwards and the relabelled copy tmp
RelabelCopy(d, is_receiver, sender) ==
    LET tmp == SelectRows(d, is_receiver)
    IN  [df |-> d,
         tmp |-> [i \in DOMAIN tmp |-> [tmp[i] EXCEPT !.recipient = sender]]]

RECURSIVE ReceivedLoop(_, _, _, _)
\* for sender in top_senders: ... res = pd.concat([res, tmp])
\* er is emails_received, computed once before the loop
ReceivedLoop(d, er, top, res) ==
    IF top = <<>> THEN [df |-> d, res |-> res]
    ELSE LET sender      == Head(top)
             is_receiver == [i \in DOMAIN d |-> IsReceiver(sender, er[i])]
             step        == RelabelCopy(d, is_receiver, sender)
         IN  ReceivedLoop(step.df, er, Tail(top), res \o step.tmp)

\* get_top_senders_received(df, top_senders): the frame df is afterwards
\* and emails_by_quarter
get_top_senders_received(d, top) ==
    LET done == ReceivedLoop(d, split_recipients(d), top, <<>>)
    IN  [df |-> done.df, table |-> UniqueByQuarter(done.res)]

(***************************************************************************)
(* Inputs.                                                                 *)
(***************************************************************************)
addr_a == <<"a">>
addr_b == <<"b">>
addr_ab == <<"a", "b">>
addr_c == <<"c">>
addr_d == <<"d">>
addr_e == <<"e">>
addr_x == <<"x">>

Sat2000Jan01 == DaysFromCivil(2000, 1, 1)
Mon2000Jan03 == DaysFromCivil(2000, 1, 3)
Mon2000Jul03 == DaysFromCivil(2000, 7, 3)
Mon2001Jan01 == DaysFromCivil(2001, 1, 1)

Row(t, s, r) == [time |-> t, sender |-> s, recipient |-> r]

\* tables for get_summaries: up to six persons, repeated and shared recipients
SummaryInputRows ==
    {Row(Mon2000Jan03, s, r) :
        s \in {addr_a, addr_b},
        r \in {addr_b, <<"a", "|", "a">>, <<"c", "|", "d", "|", "e">>, <<"a", "|", "f">>}}

\* tables for the bucketed aggregations: three quarters, an address that is
\* a prefix of another, co-receiving recipients
SeriesInputRows ==
    {Row(t, s, r) :
        t \in {Sat2000Jan01, Mon2000Jan03, Mon2000Jul03},
        s \in {addr_a, addr_b},
        r \in {addr_a, addr_ab, <<"a", "|", "b">>}}

\* rows of the csv file of a run of main
CsvInputRows ==
    {Row(t, s, r) :
        t \in {Sat2000Jan01, Mon2000Jan03, Mon2000Jul03, Mon2001Jan01},
        s \in {addr_a, addr_b},
        r \in {addr_b, <<"a", "|", "b">>}}

\* five senders writing to one address that sends nothing
FanIn ==
    [i \in 1..TOP_SENDERS |->
        Row(Mon2000Jan03, <<addr_a, addr_b, addr_c, addr_d, addr_e>>[i], addr_x)]

Tables(rows, n) == UNION {[1..k -> rows] : k \in 0..n}

\* duplicate-free lists of at most TOP_SENDERS of the persons of a table
TopSenderLists(d) ==
    {l \in UNION {[1..k -> people(d)] : k \in 0..Min(TOP_SENDERS, Cardinality(people(d)))} :
        \A i, j \in DOMAIN l : i # j => l[i] # l[j]}

Program == [parent |-> "/app", stem |-> "summarize-enron", suffix |-> ".py"]
CsvPath == [parent |-> "/data", stem |-> "enron-event-history-all", suffix |-> ".csv"]

\* sys.argv: the program alone, with the input file, with one argument more
CommandLines == {<<Program>>, <<Program, CsvPath>>, <<Program, CsvPath, CsvPath>>}

\* what read_csv finds at the input path
InputFiles ==
    {[kind |-> "missing", rows |-> <<>>]}
    \cup {[kind |-> "table", rows |-> t] :
            t \in (Tables(CsvInputRows, MaxCsvRows) \ {<<>>}) \cup {FanIn}}

(***************************************************************************)
(* main: messages, exits and output files.                                 *)
(***************************************************************************)
USAGE == "Usage: python summarize-enron.py <input file>"
NOT_FOUND == "Error: File not found"
SENT_TITLE == "Top Senders By Quarter - Emails Sent"
RECEIVED_TITLE == "Top Senders By Quarter - Unique Emails Received"

\* if 2 != len(sys.argv), accepting extra arguments
WrongArgCountLax(v) == 2 > Len(v)

\* if 2 != len(sys.argv)
WrongArgCount(v) == 2 # Len(v)

\* sys.exit(code) as the status the parent process sees
ExitStatus(code) == code % 256

\* base = path.parent.joinpath(path.stem); str(base) + tail
OutputPath(v, tail) == <<v[2].parent, v[2].stem, tail>>

summary_file(v) == OutputPath(v, "-summary.csv")
top_sender_sent_file(v) == OutputPath(v, "-top-sender-sent.png")
top_sender_received_file(v) == OutputPath(v, "-top-sender-received.png")

\* to_csv / savefig: the file at path now holds content
WriteFile(fs, path, content) ==
    [q \in DOMAIN fs \cup {path} |-> IF q = path THEN content ELSE fs[q]]

Unset ==
    /\ df = <<>>
    /\ summary = <<>>
    /\ top_senders = <<>>
    /\ ts_table = NoTable
    /\ tr_table = NoTable
    /\ files = <<>>
    /\ exit_status = 0
    /\ stdout = <<>>

InitMain ==
    /\ argv \in CommandLines
    /\ input \in InputFiles
    /\ pc = "start"
    /\ Unset

\* lines 133-146
CheckArgs ==
    /\ pc = "start"
    /\ IF WrongArgCount(argv)
       THEN /\ stdout' = Append(stdout, USAGE)
            /\ exit_status' = ExitStatus(1)
            /\ pc' = "exited"
       ELSE /\ stdout' = Append(stdout, "Loading Data...")
            /\ pc' = "load"
            /\ UNCHANGED exit_status
    /\ UNCHANGED <<argv, input, df, summary, top_senders, ts_table, tr_table, files>>

\* lines 147-161
ReadCsv ==
    /\ pc = "load"
    /\ IF input.kind = "missing"
       THEN /\ stdout' = Append(stdout, NOT_FOUND)
            /\ exit_status' = ExitStatus(-1)
            /\ pc' = "exited"
            /\ UNCHANGED df
       ELSE /\ df' = input.rows
            /\ stdout' = Append(stdout, "Getting Summary Statistics...")
            /\ pc' = "summary"
            /\ UNCHANGED exit_status
    /\ UNCHANGED <<argv, input, summary, top_senders, ts_table, tr_table, files>>

\* lines 162-166
Summarize ==
    /\ pc = "summary"
    /\ summary' \in get_summaries(df)
    /\ files' = WriteFile(files, summary_file(argv),
                          [kind |-> "csv", title |-> "person,sent,received"])
    /\ stdout' = Append(stdout, "Preparing Top Senders Sent Graph...")
    /\ pc' = "sent"
    /\ UNCHANGED <<argv, input, df, top_senders, ts_table, tr_table, exit_status>>

\* lines 167-173; an exception nobody catches ends the run with status 1
SentGraph ==
    /\ pc = "sent"
    /\ top_senders' = TopSenders(summary)
    /\ ts_table' = get_top_senders_graph(df, top_senders')
    /\ IF ts_table'.state = "raised"
       THEN /\ pc' = "crashed"
            /\ exit_status' = ExitStatus(1)
            /\ UNCHANGED <<files, stdout>>
       ELSE /\ files' = WriteFile(files, top_sender_sent_file(argv),
                                  [kind |-> "png", title |-> SENT_TITLE])
            /\ stdout' = Append(stdout, "Preparing Top Senders Received Graph...")
            /\ pc' = "received"
            /\ UNCHANGED exit_status
    /\ UNCHANGED <<argv, input, df, summary, tr_table>>

\* lines 174-178; the figure is saved to top_sender_sent_file (line 176)
ReceivedGraph ==
    /\ pc = "received"
    /\ LET r == get_top_senders_received(df, top_senders)
       IN  /\ df' = r.df
           /\ tr_table' = r.table
    /\ IF tr_table'.state = "raised"
       THEN /\ pc' = "crashed"
            /\ exit_status' = ExitStatus(1)
            /\ UNCHANGED <<files, stdout>>
       ELSE /\ files' = WriteFile(files, top_sender_sent_file(argv),
                                  [kind |-> "png", title |-> RECEIVED_TITLE])
            /\ stdout' = Append(stdout, "Done!")
            /\ pc' = "done"
            /\ UNCHANGED exit_status
    /\ UNCHANGED <<argv, input, summary, top_senders, ts_table>>

NextMain == CheckArgs \/ ReadCsv \/ Summarize \/ SentGraph \/ ReceivedGraph

SpecMain == InitMain /\ [][NextMain]_vars

(***************************************************************************)
(* The aggregation functions applied to every table of the input sets.     *)
(***************************************************************************)
InitTable ==
    /\ argv = <<Program, CsvPath>>
    /\ input = [kind |-> "table", rows |-> <<>>]
    /\ pc = "input"
    /\ Unset

AppendRow(rows, n) ==
    /\ pc = "input"
    /\ Len(df) < n
    /\ \E r \in rows : df' = Append(df, r)
    /\ UNCHANGED <<argv, input, pc, summary, top_senders, ts_table, tr_table,
                   files, exit_status, stdout>>

AppendSummaryRow == AppendRow(SummaryInputRows, MaxEvents)

AppendSeriesRow == AppendRow(SeriesInputRows, MaxSeriesEvents)

\* summary = get_summaries(df)
CallGetSummaries ==
    /\ pc = "input"
    /\ summary' \in get_summaries(df)
    /\ pc' = "summarized"
    /\ UNCHANGED <<argv, input, df, top_senders, ts_table, tr_table, files,
                   exit_status, stdout>>

\* top_senders = list(summary['person'][0:TOP_SENDERS])
CallTopSenders ==
    /\ pc = "summarized"
    /\ top_senders' = TopSenders(summary)
    /\ pc' = "selected"
    /\ UNCHANGED <<argv, input, df, summary, ts_table, tr_table, files,
                   exit_status, stdout>>

\* get_top_senders_graph(df, top_senders), the caller passing a list of
\* persons of the table
CallGraph ==
    /\ pc = "input"
    /\ top_senders' \in TopSenderLists(df)
    /\ ts_table' = get_top_senders_graph(df, top_senders')
    /\ pc' = "graphed"
    /\ UNCHANGED <<argv, input, df, summary, tr_table, files, exit_status, stdout>>

\* get_top_senders_received(df, top_senders), with the same list
CallReceived ==
    /\ pc = "graphed"
    /\ LET r == get_top_senders_received(df, top_senders)
       IN  /\ df' = r.df
           /\ tr_table' = r.table
    /\ pc' = "returned"
    /\ UNCHANGED <<argv, input, summary, top_senders, ts_table, files,
                   exit_status, stdout>>

NextSummary == AppendSummaryRow \/ CallGetSummaries \/ CallTopSenders

SpecSummary == InitTable /\ [][NextSummary]_vars

NextSeries == AppendSeriesRow \/ CallGraph \/ CallReceived

SpecSeries == InitTable /\ [][NextSeries]_vars

(***************************************************************************)
(* What the claims speak of, stated on the event table itself.             *)
(***************************************************************************)
\* the (event, position) pairs of all pipe-split recipient lists
RecipientEntries ==
    UNION {{<<k, j>> : j \in DOMAIN Split(df[k].recipient)} : k \in DOMAIN df}

EntryAddress(en) == Split(df[en[1]].recipient)[en[2]]

EventsSentBy(p) == {k \in DOMAIN df : df[k].sender = p}

EntriesOf(p) == {en \in RecipientEntries : EntryAddress(en) = p}

AllAddresses ==
    {df[k].sender : k \in DOMAIN df} \cup {EntryAddress(en) : en \in RecipientEntries}

SummaryPersons == {summary[i].person : i \in DOMAIN summary}

\* the events of bucket bk whose recipient list has s as an element
EventsTo(s, bk) ==
    {k \in DOMAIN df : /\ Rollback(df[k].time) = bk
                       /\ \E j \in DOMAIN Split(df[k].recipient) :
                              Split(df[k].recipient)[j] = s}

ContactsOf(s, bk) == {df[k].sender : k \in EventsTo(s, bk)}

\* the buckets from the one of the earliest event to the one of the latest
DatasetBuckets ==
    IF df = <<>> THEN {}
    ELSE Range(DateRange(Rollback(SetMin(Times(df))), Rollback(SetMax(Times(df)))))

\* the first day of the month, whatever its weekday
FirstCalendarDay(y, m) == DaysFromCivil(y, m, 1)

\* the 1st of January, April, July or October that starts the quarter of t
CalendarQuarterStart(t) ==
    LET cd == CivilFromDays(t) IN FirstCalendarDay(cd.y, QuarterMonth(cd.m))

Summarized == pc \in {"summarized", "selected"}

(***************************************************************************)
(* get_summaries and the top-sender slice (SpecSummary).                   *)
(***************************************************************************)
\* C1: every row of the summary holds the number of events its person sent
\* and the number of occurrences of the person over all split recipient
\* lists (a repeat within one event counted each time); the sent values add
\* up to the number of events, the received values to the number of
\* recipient entries.
C1_Counts ==
    Summarized =>
        /\ \A i \in DOMAIN summary :
              /\ summary[i].sent = Cardinality(EventsSentBy(summary[i].person))
              /\ summary[i].received = Cardinality(EntriesOf(summary[i].person))
        /\ SumOver(summary, "sent") = Len(df)
        /\ SumOver(summary, "received") = Cardinality(RecipientEntries)

\* an address twice in one event's recipient field has added 2
C1_Witness ==
    /\ Summarized
    /\ \E i \in DOMAIN summary, e1, e2 \in RecipientEntries :
          /\ e1[1] = e2[1] /\ e1[2] # e2[2]
          /\ EntryAddress(e1) = summary[i].person
          /\ EntryAddress(e2) = summary[i].person
          /\ summary[i].received >= 2

\* C2: the persons of the summary are exactly the senders and the split
\* recipients, one row each; an address seen only as a recipient has
\* sent = 0; the empty table gives the empty summary.
C2_Persons ==
    Summarized =>
        /\ SummaryPersons = AllAddresses
        /\ \A i, j \in DOMAIN summary :
              summary[i].person = summary[j].person => i = j
        /\ \A i \in DOMAIN summary :
              EventsSentBy(summary[i].person) = {} => summary[i].sent = 0
        /\ df = <<>> => summary = <<>>

\* a person who only received has a row
C2_Witness ==
    /\ Summarized
    /\ \E i \in DOMAIN summary :
          /\ EventsSentBy(summary[i].person) = {}
          /\ EntriesOf(summary[i].person) # {}
          /\ summary[i].sent = 0

\* C3: the summary is ordered by sent descending, and the top-sender list
\* is its first min(TOP_SENDERS, persons) persons: never more than
\* TOP_SENDERS, never fewer when that many persons exist, and nobody left
\* out sent more than somebody in it.
C3_SortedTop ==
    /\ Summarized =>
          \A i \in 1..(Len(summary) - 1) : summary[i].sent >= summary[i + 1].sent
    /\ pc = "selected" =>
          /\ Len(top_senders) = Min(TOP_SENDERS, Cardinality(AllAddresses))
          /\ \A i \in DOMAIN top_senders : top_senders[i] = summary[i].person
          /\ Len(top_senders) <= TOP_SENDERS
          /\ Cardinality(AllAddresses) >= TOP_SENDERS => Len(top_senders) = TOP_SENDERS
          /\ \A p \in Range(top_senders), q \in AllAddresses \ Range(top_senders) :
                Cardinality(EventsSentBy(q)) <= Cardinality(EventsSentBy(p))

\* more persons than TOP_SENDERS: the slice cuts somebody off
C3_Witness ==
    /\ pc = "selected"
    /\ Cardinality(AllAddresses) > TOP_SENDERS
    /\ Len(top_senders) = TOP_SENDERS
    /\ \E p \in Range(top_senders), q \in AllAddresses \ Range(top_senders) :
          Cardinality(EventsSentBy(q)) < Cardinality(EventsSentBy(p))

(***************************************************************************)
(* The bucketed tables (SpecSeries).                                       *)
(***************************************************************************)
\* the value the table shows for (bk, s); no cell shows nothing
HasCell(t, bk, s) == t.state = "table" /\ <<bk, s>> \in DOMAIN t.cell

\* C4: in the unique-received table the cell of top sender s and bucket bk
\* holds the number of distinct senders of the events of bk whose split
\* recipient list has s as an element (an event naming several top senders
\* counts for each), where no cell exists that number is 0, and the value
\* exceeds neither the distinct senders of the dataset nor the events
\* addressed to s in bk.
C4_UniqueReceived ==
    pc = "returned" =>
        /\ tr_table.columns \subseteq Range(top_senders)
        /\ tr_table.index \subseteq DatasetBuckets
        /\ \A s \in Range(top_senders), bk \in DatasetBuckets :
              /\ HasCell(tr_table, bk, s) =>
                    /\ tr_table.cell[<<bk, s>>] = Cardinality(ContactsOf(s, bk))
                    /\ tr_table.cell[<<bk, s>>] <= Cardinality({df[k].sender : k \in DOMAIN df})
                    /\ tr_table.cell[<<bk, s>>] <= Cardinality(EventsTo(s, bk))
              /\ ~HasCell(tr_table, bk, s) => ContactsOf(s, bk) = {}

\* one event counted for two top senders, and two events of one sender
\* counted once
C4_Witness ==
    /\ pc = "returned"
    /\ \E s1, s2 \in Range(top_senders), bk \in DatasetBuckets :
          /\ s1 # s2
          /\ EventsTo(s1, bk) \cap EventsTo(s2, bk) # {}
          /\ HasCell(tr_table, bk, s1) /\ HasCell(tr_table, bk, s2)
          /\ tr_table.cell[<<bk, s1>>] = 1
          /\ Cardinality(EventsTo(s1, bk)) = 2

\* C10: get_top_senders_received leaves the event table as it was: every
\* event keeps its timestamp, sender and recipient field.
C10_TableUnchanged == [][pc' = "returned" => df' = df]_vars

\* the call relabelled a copy: an event selected for two top senders still
\* has its own recipient field
C10_Witness ==
    /\ pc = "returned"
    /\ tr_table.state = "table"
    /\ \E s1, s2 \in Range(top_senders), k \in DOMAIN df :
          /\ s1 # s2
          /\ {s1, s2} \subseteq Range(Split(df[k].recipient))
          /\ df[k].recipient # s1 /\ df[k].recipient # s2
          /\ {s1, s2} \subseteq tr_table.columns

(***************************************************************************)
(* The run of main (SpecMain).                                             *)
(***************************************************************************)
\* C5: both tables hold a cell for every top sender and every bucket of
\* the range the dataset spans.
C5_Dense ==
    pc = "done" =>
        \A s \in Range(top_senders), bk \in DatasetBuckets :
            HasCell(ts_table, bk, s) /\ HasCell(tr_table, bk, s)

\* C6: every event of a top sender is counted in the row of the calendar
\* quarter that holds its timestamp: a row whose label lies in that
\* quarter, between the 1st of its first month and the event, and whose
\* cell counts the sender's events of that quarter.  (Read in the claim's
\* favour: the label itself is not required to be the 1st.)
C6_CalendarQuarters ==
    pc = "done" =>
        \A k \in DOMAIN df :
            df[k].sender \in Range(top_senders) =>
                LET q == CalendarQuarterStart(df[k].time)
                IN  \E bk \in ts_table.index :
                        /\ q <= bk /\ bk <= df[k].time
                        /\ HasCell(ts_table, bk, df[k].sender)
                        /\ ts_table.cell[<<bk, df[k].sender>>] =
                              Cardinality({n \in EventsSentBy(df[k].sender) :
                                              CalendarQuarterStart(df[n].time) = q})

Written == DOMAIN files

\* C7: after a successful run three files exist at three distinct paths,
\* the sent chart at -top-sender-sent.png and the received chart at
\* -top-sender-received.png.
C7_ThreeFiles ==
    pc = "done" =>
        /\ Cardinality({summary_file(argv), top_sender_sent_file(argv),
                        top_sender_received_file(argv)}) = 3
        /\ Written = {summary_file(argv), top_sender_sent_file(argv),
                      top_sender_received_file(argv)}
        /\ files[top_sender_sent_file(argv)].title = SENT_TITLE
        /\ files[top_sender_received_file(argv)].title = RECEIVED_TITLE

\* C8: a run that ended in failure has written no output file.
C8_AllOrNothing == pc \in {"exited", "crashed"} => Written = {}

\* C9: with an argument count other than one, main prints the usage text
\* and exits non-zero; with a missing input file it prints an error and
\* exits non-zero; either way no aggregation has started and no file is
\* written.
C9_EarlyExit ==
    /\ Len(argv) # 2 =>
          /\ pc \in {"start", "exited"}
          /\ pc = "exited" => stdout = <<USAGE>> /\ exit_status # 0
    /\ (Len(argv) = 2 /\ input.kind = "missing") =>
          /\ pc \in {"start", "load", "exited"}
          /\ pc = "exited" =>
                stdout[Len(stdout)] = NOT_FOUND /\ exit_status # 0
    /\ pc = "exited" =>
          /\ Len(argv) # 2 \/ input.kind = "missing"
          /\ Written = {}
          /\ df = <<>> /\ summary = <<>> /\ top_senders = <<>>
          /\ ts_table = NoTable /\ tr_table = NoTable

\* both exits have happened somewhere: here the one for the missing file
C9_Witness ==
    /\ pc = "exited"
    /\ Len(argv) = 2
    /\ input.kind = "missing"
    /\ exit_status = 255

====
